---------------------------- MODULE Spec2Model ----------------------------
(***************************************************************************)
(* Sales-analytics backend (src/app.py, src/init_db.py): the record        *)
(* cleaning pipeline, the sales table and the request handlers that write  *)
(* to it.                                                                  *)
(*                                                                         *)
(* Representation.  A Python string is a sequence of one-character         *)
(* strings.  A Python float is a record: Fin(v) stands for the number      *)
(* v / Scale, and NaN, Inf(1), Inf(-1) are the IEEE specials that float()  *)
(* accepts ("nan", "inf", "-inf").  None is the raw value NoneV.  A date   *)
(* is the record [y, m, d] that isoformat() prints as YYYY-MM-DD.          *)
(***************************************************************************)
EXTENDS Integers, Sequences, FiniteSets, TLC

\* ------------------------------------------------------------------------
\* Bounds of the model
\* ------------------------------------------------------------------------

\* The sales table never holds more than MaxRows rows: a request that would
\* insert beyond it is not started.
MaxRows == 3

\* An uploaded file has at most MaxBatch data rows.
MaxBatch == 2

\* ------------------------------------------------------------------------
\* Characters and strings
\* ------------------------------------------------------------------------

Lowers == <<"a","b","c","d","e","f","g","h","i","j","k","l","m",
            "n","o","p","q","r","s","t","u","v","w","x","y","z">>

Uppers == <<"A","B","C","D","E","F","G","H","I","J","K","L","M",
            "N","O","P","Q","R","S","T","U","V","W","X","Y","Z">>

Digits == <<"0","1","2","3","4","5","6","7","8","9">>

\* The place of c in the alphabet s, 0 when it is not there
Index(s, c) == IF \E i \in DOMAIN s : s[i] = c THEN CHOOSE i \in DOMAIN s : s[i] = c ELSE 0

IsLower(c) == Index(Lowers, c) # 0

IsUpper(c) == Index(Uppers, c) # 0

IsDigit(c) == Index(Digits, c) # 0

IsSpace(c) == c \in {" ", "\t"}

\* str.lower() and str.upper(), one character at a time
\* The sequence a function on 1..n is, as a tuple
Tuple(f) == <<>> \o f

\* The function f with its values worked out
Table(f) == f @@ <<>>

LowerChar(c) == IF IsUpper(c) THEN Lowers[Index(Uppers, c)] ELSE c

UpperChar(c) == IF IsLower(c) THEN Uppers[Index(Lowers, c)] ELSE c

lower(s) == Tuple([i \in DOMAIN s |-> LowerChar(s[i])])

upper(s) == Tuple([i \in DOMAIN s |-> UpperChar(s[i])])

\* str.title(): a cased character is upper-cased when the character before it
\* is not cased, lower-cased otherwise
title(s) ==
    Tuple([i \in DOMAIN s |->
             IF i = 1 \/ ~(IsLower(s[i-1]) \/ IsUpper(s[i-1]))
             THEN UpperChar(s[i]) ELSE LowerChar(s[i])])

RECURSIVE lstrip(_)
lstrip(s) == IF s # <<>> /\ IsSpace(Head(s)) THEN lstrip(Tail(s)) ELSE s

RECURSIVE rstrip(_)
rstrip(s) ==
    IF s # <<>> /\ IsSpace(s[Len(s)]) THEN rstrip(SubSeq(s, 1, Len(s) - 1)) ELSE s

\* str.strip()
strip(s) == rstrip(lstrip(s))

\* `sub in s` for strings
contains(s, sub) ==
    \E i \in 0..(Len(s) - Len(sub)) : SubSeq(s, i + 1, i + Len(sub)) = sub

\* str.replace(c, "") for each character c of the set cs
RemoveChars(s, cs) == SelectSeq(s, LAMBDA c : c \notin cs)

\* s.split(sep) for a one-character separator
RECURSIVE split(_, _)
split(s, sep) ==
    IF \A i \in DOMAIN s : s[i] # sep THEN <<s>>
    ELSE LET k == CHOOSE i \in DOMAIN s :
                     s[i] = sep /\ \A j \in 1..(i-1) : s[j] # sep
         IN  <<SubSeq(s, 1, k - 1)>> \o split(SubSeq(s, k + 1, Len(s)), sep)

AllDigits(s) == s # <<>> /\ \A i \in DOMAIN s : IsDigit(s[i])

RECURSIVE Pow10(_)
Pow10(k) == IF k = 0 THEN 1 ELSE 10 * Pow10(k - 1)

\* int(s) for a string of decimal digits
RECURSIVE DigitsValue(_)
DigitsValue(s) ==
    IF s = <<>> THEN 0
    ELSE 10 * DigitsValue(SubSeq(s, 1, Len(s) - 1)) + (Index(Digits, s[Len(s)]) - 1)

\* str(n) for an integer n >= 0
RECURSIVE IntToStr(_)
IntToStr(n) ==
    IF n < 10 THEN <<Digits[n + 1]>>
    ELSE IntToStr(n \div 10) \o <<Digits[(n % 10) + 1]>>

\* str.zfill(width) for a string without sign
RECURSIVE zfill(_, _)
zfill(s, width) == IF Len(s) >= width THEN s ELSE zfill(<<"0">> \o s, width)

\* ------------------------------------------------------------------------
\* Floats
\* ------------------------------------------------------------------------

\* Fin(v) is the number v / Scale.  Huge(s) is a finite float of sign s whose
\* magnitude is beyond what the model tracks: the value of a literal of 20 or
\* more integer digits (above 2^63), or the result of arithmetic on one; its
\* sign is 0 when the arithmetic leaves it open.
Scale == 10 * 100

Fin(v) == [k |-> "fin", v |-> v]

NaN == [k |-> "nan", v |-> 0]

\* inf and -inf
Inf(sign) == [k |-> "inf", v |-> IF sign > 0 THEN 1 ELSE -1]

Huge(sign) == [k |-> "huge", v |-> sign]

IsFin(a) == a.k = "fin"

Sign(a) == IF a.v > 0 THEN 1 ELSE IF a.v < 0 THEN -1 ELSE 0

\* The place of a float among -inf < -huge < tracked < +huge < +inf
Rank(a) == IF a.k = "inf" THEN 2 * a.v ELSE IF a.k = "huge" THEN a.v ELSE 0

\* a > b and a < b; every comparison with NaN is false
FGt(a, b) ==
    /\ a.k # "nan" /\ b.k # "nan"
    /\ \/ Rank(a) > Rank(b)
       \/ IsFin(a) /\ IsFin(b) /\ a.v > b.v

FLt(a, b) == FGt(b, a)

\* n / d rounded to the nearest integer, ties to even
RoundDiv(n, d) ==
    LET a == IF n < 0 THEN -n ELSE n
        q == a \div d
        r == a % d
        m == IF 2 * r > d \/ (2 * r = d /\ q % 2 = 1) THEN q + 1 ELSE q
    IN  IF n < 0 THEN -m ELSE m

\* a - b
FSub(a, b) ==
    IF a.k = "nan" \/ b.k = "nan" THEN NaN
    ELSE IF IsFin(a) /\ IsFin(b) THEN Fin(a.v - b.v)
    ELSE IF a.k = "inf" /\ b.k = "inf" THEN (IF a = b THEN NaN ELSE a)
    ELSE IF a.k = "inf" THEN a
    ELSE IF b.k = "inf" THEN Inf(-b.v)
    ELSE IF IsFin(b) THEN a
    ELSE IF IsFin(a) THEN Huge(-b.v)
    ELSE Huge(IF a.v = -b.v THEN a.v ELSE 0)

\* a * b; the finite product is rounded to the nearest 1 / Scale
FMul(a, b) ==
    IF a.k = "nan" \/ b.k = "nan" THEN NaN
    ELSE IF IsFin(a) /\ IsFin(b) THEN Fin(RoundDiv(a.v * b.v, Scale))
    ELSE IF a.k = "inf" \/ b.k = "inf"
         THEN (IF (IsFin(a) /\ a.v = 0) \/ (IsFin(b) /\ b.v = 0) THEN NaN
               ELSE Inf(Sign(a) * Sign(b)))
    ELSE IF (IsFin(a) /\ a.v = 0) \/ (IsFin(b) /\ b.v = 0) THEN Fin(0)
    ELSE Huge(Sign(a) * Sign(b))

\* round(a, 2)
Round2(a) ==
    IF IsFin(a) THEN Fin(RoundDiv(a.v, Scale \div 100) * (Scale \div 100)) ELSE a

\* round(a * b, 2), the product taken exactly before it is rounded
MulRound2(a, b) ==
    IF IsFin(a) /\ IsFin(b)
    THEN Fin(RoundDiv(a.v * b.v, (Scale * Scale) \div 100) * (Scale \div 100))
    ELSE FMul(a, b)

\* a / 100.0
FDiv100(a) == IF IsFin(a) THEN Fin(RoundDiv(a.v, 100)) ELSE a

\* The outcome of a conversion that can raise
Ok(v) == [ok |-> TRUE, v |-> v, exc |-> "none"]

Raise(exc) == [ok |-> FALSE, v |-> 0, exc |-> exc]

\* A Python integer is a TLA+ integer; Beyond64 stands for every integer
\* above 2^63 - 1 and -Beyond64 for every integer below -2^63.
Beyond64 == 2 * Scale * Scale * Scale

FromInt(n) ==
    IF n = Beyond64 THEN Huge(1) ELSE IF n = -Beyond64 THEN Huge(-1) ELSE Fin(n * Scale)

\* sqlite3 binds a Python integer as a 64-bit INTEGER, or raises
\* OverflowError
FitsInt64(n) == n # Beyond64 /\ n # -Beyond64

\* int(a): truncation towards zero; ValueError for NaN, OverflowError for
\* an infinity
ToInt(a) ==
    IF a.k = "nan" THEN Raise("ValueError")
    ELSE IF a.k = "inf" THEN Raise("OverflowError")
    ELSE IF a.k = "huge" THEN Ok(a.v * Beyond64)
    ELSE Ok(IF a.v >= 0 THEN a.v \div Scale ELSE -((-a.v) \div Scale))

\* A decimal literal of float(): digits with at most one point, at least one
\* digit
IsDecimal(s) ==
    /\ \A i \in DOMAIN s : IsDigit(s[i]) \/ s[i] = "."
    /\ Cardinality({i \in DOMAIN s : s[i] = "."}) <= 1
    /\ \E i \in DOMAIN s : IsDigit(s[i])

\* Its value in units of 1 / Scale, from its integer and fraction digits
UnitsOf(ip, fp) ==
    DigitsValue(ip) * Scale + RoundDiv(DigitsValue(fp) * Scale, Pow10(Len(fp)))

PartsUnits(parts) == UnitsOf(parts[1], IF Len(parts) > 1 THEN parts[2] ELSE <<>>)

DecimalUnits(s) == PartsUnits(split(s, "."))

\* The number of digits of its integer part, leading zeros apart
RECURSIVE DropZeros(_)
DropZeros(s) == IF s # <<>> /\ Head(s) = "0" THEN DropZeros(Tail(s)) ELSE s

IntDigits(s) == Len(DropZeros(split(s, ".")[1]))

\* float() of a literal without its sign; neg tells the sign it had
ParseUnsigned(neg, body, lw) ==
    IF lw = <<"n","a","n">> THEN Ok(NaN)
    ELSE IF lw \in {<<"i","n","f">>, <<"i","n","f","i","n","i","t","y">>}
         THEN Ok(Inf(IF neg THEN -1 ELSE 1))
    ELSE IF IsDecimal(body) /\ IntDigits(body) >= 20
         THEN Ok(Huge(IF neg THEN -1 ELSE 1))
    ELSE IF IsDecimal(body)
         THEN Ok(Fin(IF neg THEN -DecimalUnits(body) ELSE DecimalUnits(body)))
    ELSE Raise("ValueError")

ParseSigned(t, body) == ParseUnsigned(t # <<>> /\ Head(t) = "-", body, lower(body))

ParseStripped(t) ==
    ParseSigned(t, IF t # <<>> /\ Head(t) \in {"+", "-"} THEN Tail(t) ELSE t)

\* float(s): Ok(value), or ValueError.  The literals covered are
\* [sign] decimal, [sign] "nan", [sign] "inf" and [sign] "infinity"; the raw
\* strings of this model use no exponent and no digit-group underscore, and
\* their decimals have either at most 6 or at least 20 integer digits.
ParseFloat(s) == ParseStripped(strip(s))

\* ------------------------------------------------------------------------
\* Raw records
\* ------------------------------------------------------------------------

\* A raw scalar: None, or a string (a CSV cell, a JSON string)
NoneV == [t |-> "none", s |-> <<>>]

Str(s) == [t |-> "str", s |-> s]

\* Python truthiness of a raw scalar: None and "" are falsy
Truthy(val) == val.t = "str" /\ val.s # <<>>

\* str(val or default)
OrStr(val, default) == IF Truthy(val) THEN val.s ELSE default

\* A raw record is a sequence of cells [h |-> label, v |-> raw scalar] with
\* distinct labels, in the order of the dict's keys.
keys(raw) == Tuple([i \in DOMAIN raw |-> raw[i].h])

\* raw.get(h)
RawGet(raw, h) ==
    IF \E i \in DOMAIN raw : raw[i].h = h
    THEN raw[CHOOSE i \in DOMAIN raw : raw[i].h = h].v
    ELSE NoneV

\* ------------------------------------------------------------------------
\* Alias resolution
\* ------------------------------------------------------------------------

\* norm(s): lowercase, then drop everything but a-z and 0-9
norm(s) == SelectSeq(lower(s), LAMBDA c : IsLower(c) \/ IsDigit(c))

\* The alias table of get_header_mapping; alts is [target] + alt_list
aliases ==
    << [target |-> "Order_ID",
        alts |-> << <<"O","r","d","e","r","_","I","D">>,
                    <<"O","r","d","e","r"," ","I","D">>,
                    <<"I","D">>,
                    <<"O","r","d","e","r","I","D">>,
                    <<"O","r","d","e","r"," ","#">>,
                    <<"T","r","a","n","s","a","c","t","i","o","n">>,
                    <<"T","r","a","n","s"," ","I","D">>,
                    <<"C","a","r","_","i","d">> >>],
       [target |-> "Order_Date",
        alts |-> << <<"O","r","d","e","r","_","D","a","t","e">>,
                    <<"D","a","t","e">>,
                    <<"O","r","d","e","r"," ","D","a","t","e">>,
                    <<"T","i","m","e","s","t","a","m","p">>,
                    <<"C","r","e","a","t","e","d"," ","A","t">>,
                    <<"T","r","a","n","s","a","c","t","i","o","n"," ","D","a","t","e">>,
                    <<"T","i","m","e">> >>],
       [target |-> "Customer_Name",
        alts |-> << <<"C","u","s","t","o","m","e","r","_","N","a","m","e">>,
                    <<"C","u","s","t","o","m","e","r">>,
                    <<"N","a","m","e">>,
                    <<"B","u","y","e","r">>,
                    <<"C","l","i","e","n","t">>,
                    <<"U","s","e","r"," ","N","a","m","e">>,
                    <<"U","s","e","r">>,
                    <<"C","u","s","t","o","m","e","r"," ","N">>,
                    <<"C","u","s","t","o","m","e","r"," ","N","a","m","e">> >>],
       [target |-> "Region",
        alts |-> << <<"R","e","g","i","o","n">>,
                    <<"L","o","c","a","t","i","o","n">>,
                    <<"T","e","r","r","i","t","o","r","y">>,
                    <<"S","t","a","t","e">>,
                    <<"C","o","u","n","t","r","y">>,
                    <<"R","e","g","i","o","n"," ","N","a","m","e">>,
                    <<"D","e","a","l","e","r","_","R","e","g","i","o","n">>,
                    <<"D","e","a","l","e","r","_","R","e","g","i","o","n">> >>],
       [target |-> "Product",
        alts |-> << <<"P","r","o","d","u","c","t">>,
                    <<"I","t","e","m">>,
                    <<"P","r","o","d","u","c","t"," ","N","a","m","e">>,
                    <<"S","K","U">>,
                    <<"D","e","s","c","r","i","p","t","i","o","n">>,
                    <<"P","r","o","d","u","c","t">>,
                    <<"M","o","d","e","l">>,
                    <<"C","o","m","p","a","n","y">> >>],
       [target |-> "Category",
        alts |-> << <<"C","a","t","e","g","o","r","y">>,
                    <<"C","a","t">>,
                    <<"D","e","p","a","r","t","m","e","n","t">>,
                    <<"T","y","p","e">>,
                    <<"C","a","t","e","g","o","r","y"," ","N","a","m","e">>,
                    <<"P","r","o","d","u","c","t"," ","C","a","t","e","g","o","r","y">>,
                    <<"B","o","d","y"," ","S","t","y","l","e">> >>],
       [target |-> "Quantity",
        alts |-> << <<"Q","u","a","n","t","i","t","y">>,
                    <<"Q","t","y">>,
                    <<"U","n","i","t","s">>,
                    <<"A","m","o","u","n","t"," ","S","o","l","d">>,
                    <<"C","o","u","n","t">>,
                    <<"Q","u","a","n","t","i","t","y"," ","P","u","r","c","h","a","s","e","d">> >>],
       [target |-> "Unit_Price",
        alts |-> << <<"U","n","i","t","_","P","r","i","c","e">>,
                    <<"P","r","i","c","e">>,
                    <<"R","a","t","e">>,
                    <<"S","a","l","e","s"," ","P","r","i","c","e">>,
                    <<"R","e","t","a","i","l"," ","P","r","i","c","e">>,
                    <<"R","e","v","e","n","u","e">>,
                    <<"P","u","r","c","h","a","s","e"," ","A","m","o","u","n","t">>,
                    <<"A","m","o","u","n","t">>,
                    <<"T","o","t","a","l">>,
                    <<"P","r","i","c","e"," ","(","$",")">> >>],
       [target |-> "Cost_Price",
        alts |-> << <<"C","o","s","t","_","P","r","i","c","e">>,
                    <<"C","o","s","t">>,
                    <<"C","O","G","S">>,
                    <<"P","u","r","c","h","a","s","e"," ","P","r","i","c","e">>,
                    <<"B","u","y","i","n","g"," ","P","r","i","c","e">> >>],
       [target |-> "Discount",
        alts |-> << <<"D","i","s","c","o","u","n","t">>,
                    <<"D","i","s","c">>,
                    <<"P","r","o","m","o">>,
                    <<"M","a","r","k","d","o","w","n">>,
                    <<"D","i","s","c","o","u","n","t"," ","%">> >>],
       [target |-> "Payment_Method",
        alts |-> << <<"P","a","y","m","e","n","t","_","M","e","t","h","o","d">>,
                    <<"P","a","y","m","e","n","t">>,
                    <<"M","e","t","h","o","d">>,
                    <<"P","a","y","m","e","n","t"," ","M","e","t","h","o","d">>,
                    <<"P","a","y","m","e","n","t","_","M","e","t","h","o","d">>,
                    <<"T","y","p","e">>,
                    <<"T","r","a","n","s","m","i","s","s","i","o","n">> >>],
       [target |-> "Age",
        alts |-> << <<"A","g","e">>,
                    <<"A","g","e">>,
                    <<"C","u","s","t","o","m","e","r"," ","A","g","e">>,
                    <<"B","u","y","e","r"," ","A","g","e">> >>],
       [target |-> "Gender",
        alts |-> << <<"G","e","n","d","e","r">>,
                    <<"G","e","n","d","e","r">>,
                    <<"S","e","x">> >>],
       [target |-> "Annual_Income",
        alts |-> << <<"A","n","n","u","a","l","_","I","n","c","o","m","e">>,
                    <<"I","n","c","o","m","e">>,
                    <<"A","n","n","u","a","l"," ","I","n","c","o","m","e">>,
                    <<"A","n","n","u","a","l"," ","I","n","c","o">> >>] >>


\* norm(alt) of every entry of the table
AliasNorms ==
    Tuple([i \in DOMAIN aliases |->
             Tuple([j \in DOMAIN aliases[i].alts |-> norm(aliases[i].alts[j])])])

Targets == {aliases[i].target : i \in DOMAIN aliases}

\* The least member of a set of positions, 0 for the empty set; the greatest
MinOf(S) == IF S = {} THEN 0 ELSE CHOOSE j \in S : \A k \in S : j <= k

MaxOf(S) == CHOOSE j \in S : \A k \in S : k <= j

\* raw_norm = {norm(h): h for h in csv_headers if h}: of the headers with
\* one normal form the last one stays.  norms[i] is norm(csv_headers[i]).
InRawNorm(csv_headers, norms, n) ==
    \E i \in DOMAIN csv_headers : csv_headers[i] # <<>> /\ norms[i] = n

RawNormGet(csv_headers, norms, n) ==
    csv_headers[MaxOf({i \in DOMAIN csv_headers : csv_headers[i] # <<>> /\ norms[i] = n})]

\* The first entry of [target] + alt_list whose normal form is a key of
\* raw_norm, 0 when there is none
FirstAlt(csv_headers, norms, i) ==
    MinOf({j \in DOMAIN AliasNorms[i] : InRawNorm(csv_headers, norms, AliasNorms[i][j])})

\* The row of the alias table for target t
AliasRow(t) == CHOOSE i \in DOMAIN aliases : aliases[i].target = t

\* mapping[target] = raw_norm[n_alt] for the first hit of every target
MappingOf(csv_headers, norms, first) ==
    Table([t \in {aliases[i].target : i \in {n \in DOMAIN aliases : first[n] # 0}} |->
             RawNormGet(csv_headers, norms, AliasNorms[AliasRow(t)][first[AliasRow(t)]])])

FirstAlts(csv_headers, norms) ==
    MappingOf(csv_headers, norms,
              Tuple([i \in DOMAIN aliases |-> FirstAlt(csv_headers, norms, i)]))

\* get_header_mapping(csv_headers): { internal field : csv header }
get_header_mapping(csv_headers) ==
    FirstAlts(csv_headers, Tuple([i \in DOMAIN csv_headers |-> norm(csv_headers[i])]))

\* ------------------------------------------------------------------------
\* Dates
\* ------------------------------------------------------------------------

IsLeap(y) == (y % 4 = 0 /\ y % 100 # 0) \/ y % 400 = 0

DaysInMonth(y, m) ==
    IF m = 2 THEN (IF IsLeap(y) THEN 29 ELSE 28)
    ELSE IF m \in {4, 6, 9, 11} THEN 30 ELSE 31

\* The formats clean_record tries, in order: the separator and the place of
\* the year, month and day among the three parts
DateFormats ==
    << [sep |-> "-", y |-> 1, m |-> 2, d |-> 3],     \* %Y-%m-%d
       [sep |-> "/", y |-> 3, m |-> 2, d |-> 1],     \* %d/%m/%Y
       [sep |-> "/", y |-> 3, m |-> 1, d |-> 2],     \* %m/%d/%Y
       [sep |-> "-", y |-> 3, m |-> 2, d |-> 1],     \* %d-%m-%Y
       [sep |-> "/", y |-> 1, m |-> 2, d |-> 3] >>   \* %Y/%m/%d

\* datetime.strptime(s, fmt) succeeds: %Y is four digits, %m and %d one or
\* two, and the three numbers are a date of the calendar
IsDate(y, m, d) == y >= 1 /\ m \in 1..12 /\ d \in 1..DaysInMonth(y, m)

PartsParse(p, fmt) ==
    /\ Len(p) = 3
    /\ \A i \in 1..3 : AllDigits(p[i])
    /\ Len(p[fmt.y]) = 4 /\ Len(p[fmt.m]) \in {1, 2} /\ Len(p[fmt.d]) \in {1, 2}
    /\ IsDate(DigitsValue(p[fmt.y]), DigitsValue(p[fmt.m]), DigitsValue(p[fmt.d]))

Parses(s, fmt) == PartsParse(split(s, fmt.sep), fmt)

\* datetime.strptime(s, fmt).date(), when it succeeds
strptime(s, fmt) ==
    [y |-> DigitsValue(split(s, fmt.sep)[fmt.y]),
     m |-> DigitsValue(split(s, fmt.sep)[fmt.m]),
     d |-> DigitsValue(split(s, fmt.sep)[fmt.d])]

\* ------------------------------------------------------------------------
\* clean_record
\* ------------------------------------------------------------------------

\* The caller's next_order_num: None, or a number
NoHint == [given |-> FALSE, n |-> 0]

Hint(n) == [given |-> TRUE, n |-> n]

North == <<"N","o","r","t","h">>

South == <<"S","o","u","t","h">>

East == <<"E","a","s","t">>

West == <<"W","e","s","t">>

valid_regions == {North, South, East, West}

\* to_f(val, default_val): the default for None, a blank string or a string
\* float() rejects; "," "$" "%" are dropped before parsing
OrDefault(r, default_val) == IF r.ok THEN r.v ELSE default_val

to_f(val, default_val) ==
    IF val.t = "none" \/ strip(val.s) = <<>> THEN default_val
    ELSE OrDefault(ParseFloat(strip(RemoveChars(val.s, {",", "$", "%"}))), default_val)

\* The result of clean_record: the pair (cleaned, warnings), or the exception
\* that left it
Returned(rec, warnings) ==
    [ok |-> TRUE, exc |-> "none", msg |-> <<>>, rec |-> rec, warnings |-> warnings]

Raised(exc, msg) ==
    [ok |-> FALSE, exc |-> exc, msg |-> msg, rec |-> <<>>, warnings |-> <<>>]

\* query("SELECT 1 FROM sales WHERE Order_ID=?")
ExistsOrderId(table, o_id) == \E i \in DOMAIN table : table[i].Order_ID = o_id

\* query("SELECT COUNT(*) c FROM sales")
CountRows(table) == Len(table)

\* f"ORD-{str(num).zfill(6)}"
GeneratedId(num) == <<"O","R","D","-">> \o zfill(IntToStr(num), 6)

\* The quantity check of clean_record: int(qty_f) if qty_f > 0 else 1
CleanQty(qty_f) == IF FGt(qty_f, Fin(0)) THEN ToInt(qty_f) ELSE Ok(1)

\* The price checks: if u_price <= 0: u_price = 100.0, and the same with 60.0
CleanPrice(price, default_val) == IF FGt(price, Fin(0)) THEN price ELSE default_val

\* The inferred or coerced cost, before validation
RawCost(raw_cost, u_price) ==
    IF raw_cost.t = "none" \/ strip(raw_cost.s) = <<>>
    THEN MulRound2(u_price, Fin((7 * Scale) \div 10))
    ELSE to_f(raw_cost, FromInt(60))

\* if discount < 0: discount = 0.0
\* if discount > 0.9: discount = 0.9
Clamp(discount) ==
    IF FLt(discount, Fin(0)) THEN Fin(0)
    ELSE IF FGt(discount, Fin((9 * Scale) \div 10)) THEN Fin((9 * Scale) \div 10)
    ELSE discount

\* The discount rule: a value above 1 is a percentage; then clamp to [0, 0.9]
CleanDiscount(disc_f) ==
    Clamp(IF FGt(disc_f, FromInt(1)) THEN FDiv100(disc_f) ELSE disc_f)

\* A sales amount that left the discount out
SalesAmountGross(qty, u_price, discount) == MulRound2(FromInt(qty), u_price)

\* sales_amt = round(qty * u_price * (1 - discount), 2)
SalesAmount(qty, u_price, discount) ==
    MulRound2(FMul(FromInt(qty), u_price), FSub(FromInt(1), discount))

\* profit = round(sales_amt - (qty * c_price), 2)
ProfitOf(sales_amt, qty, c_price) ==
    Round2(FSub(sales_amt, FMul(FromInt(qty), c_price)))

\* The region among the valid ones that matches at the positions M of the
\* iteration order, if any
MatchRegion(region, order, M) ==
    IF M # {} THEN [region |-> order[MinOf(M)], warn |-> FALSE]
    ELSE [region |-> region, warn |-> TRUE]

\* The region after normalisation, and whether it got the non-standard
\* warning.  order is the iteration order of the set valid_regions.
CleanRegion(region, order) ==
    IF region \in valid_regions THEN [region |-> region, warn |-> FALSE]
    ELSE MatchRegion(region, order,
             {i \in DOMAIN order : contains(lower(region), lower(order[i]))})

\* The first format that parses date_str, 0 when none does
FirstFormat(date_str) ==
    MinOf({i \in DOMAIN DateFormats : Parses(date_str, DateFormats[i])})

\* The order date, and whether the date got the invalid-format warning
DateWith(date_str, fmt, today) ==
    [o_date |-> IF fmt # 0 THEN strptime(date_str, DateFormats[fmt]) ELSE today,
     warn   |-> fmt = 0 /\ date_str # <<>>,
     date_str |-> date_str]

CleanDate(date_str, today) == DateWith(date_str, FirstFormat(date_str), today)

\* The duplicate check of clean_record: raises for an explicit Order_ID that
\* the table holds
IsDuplicate(check_duplicates, o_id, table) ==
    check_duplicates /\ o_id # <<>> /\ ExistsOrderId(table, o_id)

\* The Order_ID of the cleaned record
ResolveOrderId(o_id, next_order_num, table) ==
    IF o_id # <<>> THEN o_id
    ELSE GeneratedId(IF next_order_num.given THEN next_order_num.n
                     ELSE CountRows(table) + 1)

\* str(val or default).strip().title()
CleanText(val, default) == title(strip(OrStr(val, default)))

Unknown == <<"U","n","k","n","o","w","n">>

Other == <<"O","t","h","e","r">>

\* The product, which takes the category's name when it is missing and the
\* category is not "Other"
CleanProduct(prod, cat) ==
    CleanText(IF ~Truthy(prod) /\ cat # Other THEN Str(cat) ELSE prod,
              <<"U","n","k","n","o","w","n"," ","P","r","o","d","u","c","t">>)

\* f"C-{name_clean[:6]}" of the letters and digits of the upper-cased name
IdOfName(name_clean) ==
    <<"C","-">> \o
    (IF name_clean = <<>> THEN <<"C","U","S","T">>
     ELSE SubSeq(name_clean, 1, IF Len(name_clean) < 6 THEN Len(name_clean) ELSE 6))

CustomerId(c_name) ==
    IdOfName(SelectSeq(upper(c_name), LAMBDA c : IsUpper(c) \/ IsDigit(c)))

\* internal_data: the raw value of every internal field the mapping names
InternalOf(raw, mapping) ==
    Table([t \in Targets |-> IF t \in DOMAIN mapping THEN RawGet(raw, mapping[t]) ELSE NoneV])

\* An empty header_mapping stands for None as well: both are falsy
internal_data(raw, header_mapping) ==
    InternalOf(raw, IF DOMAIN header_mapping # {} THEN header_mapping
                    ELSE get_header_mapping(keys(raw)))

\* The numeric coercions of clean_record
Coerce(d) ==
    [u_price  |-> to_f(d["Unit_Price"], FromInt(100)),
     raw_cost |-> d["Cost_Price"],
     qty_f    |-> to_f(d["Quantity"], FromInt(1)),
     disc_f   |-> to_f(d["Discount"], Fin(0)),
     age_f    |-> to_f(d["Age"], Fin(0)),
     income   |-> to_f(d["Annual_Income"], Fin(0))]

\* The validation of the coerced numbers; the cost is inferred from the
\* price as coerced, before the price is validated
Validate(c) ==
    [qty_r    |-> CleanQty(c.qty_f),
     u_price  |-> CleanPrice(c.u_price, FromInt(100)),
     c_price  |-> CleanPrice(RawCost(c.raw_cost, c.u_price), FromInt(60)),
     discount |-> CleanDiscount(c.disc_f),
     age_r    |-> ToInt(c.age_f),
     income   |-> c.income]

\* The string fields of clean_record
CleanStrings(d) ==
    [c_name     |-> CleanText(d["Customer_Name"],
                      <<"U","n","k","n","o","w","n"," ","C","u","s","t","o","m","e","r">>),
     region     |-> CleanText(d["Region"], Unknown),
     cat        |-> CleanText(d["Category"], Other),
     prod       |-> d["Product"],
     pay_method |-> CleanText(d["Payment_Method"], Unknown),
     gender     |-> CleanText(d["Gender"], Unknown)]

\* The warnings of clean_record, in the order it appends them
Warnings(region0, reg, dt) ==
    (IF reg.warn THEN << <<"Region", region0>> >> ELSE <<>>)
    \o (IF dt.warn THEN << <<"Date", dt.date_str>> >> ELSE <<>>)

\* The cleaned record
Cleaned(s, n, reg, dt, o_id, sales_amt) ==
    [Order_ID |-> o_id, Order_Date |-> dt.o_date, Customer_ID |-> CustomerId(s.c_name),
     Customer_Name |-> s.c_name, Region |-> reg.region,
     Product |-> CleanProduct(s.prod, s.cat),
     Category |-> s.cat, Quantity |-> n.qty_r.v, Unit_Price |-> n.u_price,
     Cost_Price |-> n.c_price, Discount |-> n.discount,
     Sales_Amount |-> sales_amt,
     Profit |-> ProfitOf(sales_amt, n.qty_r.v, n.c_price),
     Payment_Method |-> s.pay_method, Age |-> n.age_r.v, Gender |-> s.gender,
     Annual_Income |-> n.income]

\* The exits of clean_record in the order the code reaches them: int(qty_f),
\* the duplicate check, int(age), the return
Outcome(s, n, reg, dt, o_id0, check_duplicates, next_order_num, table) ==
    IF ~n.qty_r.ok THEN Raised(n.qty_r.exc, <<"cannot convert float to integer", <<>>>>)
    ELSE IF IsDuplicate(check_duplicates, o_id0, table)
         THEN Raised("ValueError", <<"Duplicate Order_ID", o_id0>>)
    ELSE IF ~n.age_r.ok THEN Raised(n.age_r.exc, <<"cannot convert float to integer", <<>>>>)
    ELSE Returned(Cleaned(s, n, reg, dt, ResolveOrderId(o_id0, next_order_num, table),
                          SalesAmount(n.qty_r.v, n.u_price, n.discount)),
                  Warnings(s.region, reg, dt))

CleanWith(d, s, check_duplicates, next_order_num, table, env) ==
    Outcome(s, Validate(Coerce(d)), CleanRegion(s.region, env.order),
            CleanDate(strip(OrStr(d["Order_Date"], <<>>)), env.today),
            strip(OrStr(d["Order_ID"], <<>>)),
            check_duplicates, next_order_num, table)

CleanInternal(d, check_duplicates, next_order_num, table, env) ==
    CleanWith(d, CleanStrings(d), check_duplicates, next_order_num, table, env)

\* clean_record(raw, check_duplicates, next_order_num, header_mapping) run
\* against the table table; env gives date.today() and the iteration order of
\* valid_regions
clean_record(raw, check_duplicates, next_order_num, header_mapping, table, env) ==
    CleanInternal(internal_data(raw, header_mapping),
                  check_duplicates, next_order_num, table, env)

\* ------------------------------------------------------------------------
\* The sales table and the requests
\* ------------------------------------------------------------------------

\* The processes that serve requests; each serves one request at a time
Workers == {"w1", "w2"}

VARIABLES
    db,      \* the rows of table sales, in rowid order
    seq,     \* the AUTOINCREMENT counter of the table (sqlite_sequence)
    pc,      \* pc[w]: where worker w is in its handler
    req,     \* req[w]: the request worker w is serving
    loc,     \* loc[w]: the local variables of the handler
    resp,    \* resp[w]: the response, once the handler has ended
    probe    \* a clean_record or get_header_mapping call made on its own,
             \* and its result

vars == <<db, seq, pc, req, loc, resp, probe>>

NoReq == [kind |-> "none"]

NoResp == [status |-> 0]

NoProbe == [called |-> FALSE]

\* The environment of one clean_record call: date.today(), and the order in
\* which the set valid_regions iterates (string hashing is seeded per
\* process)
Today == [y |-> 2026, m |-> 11, d |-> 2]

Envs ==
    { [today |-> Today, order |-> o] :
        o \in { <<North, South, East, West>>, <<West, East, South, North>> } }

\* The columns of sales declared NOT NULL that clean_record fills with a
\* float; sqlite3 binds a NaN as NULL
HasNull(rec) ==
    \E x \in {rec.Unit_Price, rec.Cost_Price, rec.Discount, rec.Sales_Amount, rec.Profit} :
        x.k = "nan"

\* The integer columns that clean_record fills
Binds(rec) == FitsInt64(rec.Quantity) /\ FitsInt64(rec.Age)

\* A table that kept Order_ID unique would leave out a row whose Order_ID it
\* holds
InsertOneUnique(table, id, rec) ==
    IF \E i \in DOMAIN table : table[i].Order_ID = rec.Order_ID THEN table
    ELSE Append(table, [id |-> id] @@ rec)

\* The table never declares Order_ID unique (src/init_db.py): a plain INSERT
\* fails only on a NULL in a NOT NULL column
InsertOne(table, id, rec) == Append(table, [id |-> id] @@ rec)

\* executemany("INSERT OR IGNORE ..."): every row takes the next rowid; a row
\* with a NULL in a NOT NULL column is dropped, its rowid spent
RECURSIVE InsertOrIgnore(_, _, _)
InsertOrIgnore(table, last, rows) ==
    IF rows = <<>> THEN [db |-> table, seq |-> last]
    ELSE InsertOrIgnore(
             IF HasNull(Head(rows)) THEN table ELSE InsertOne(table, last + 1, Head(rows)),
             last + 1, Tail(rows))

\* The rows a request in flight may still insert
Pending(w) ==
    IF req[w].kind = "post" THEN 1
    ELSE IF req[w].kind = "import" THEN Len(req[w].rows)
    ELSE 0

RECURSIVE SumPending(_)
SumPending(ws) ==
    IF ws = {} THEN 0
    ELSE LET w == CHOOSE x \in ws : TRUE IN Pending(w) + SumPending(ws \ {w})

\* A request that may insert n rows is started only while the table's
\* counter cannot pass MaxRows
Room(n) == seq + SumPending(Workers) + n <= MaxRows

Finish(w, response) ==
    /\ pc' = [pc EXCEPT ![w] = "done"]
    /\ resp' = [resp EXCEPT ![w] = response]

\* ----- POST /api/orders ---------------------------------------------------

\* The response of api_orders_post to what clean_record did: ValueError is
\* answered 400 with str(e); any other exception is not caught
PostFailure(r) ==
    IF r.exc = "ValueError" THEN [status |-> 400, error |-> r.msg]
    ELSE [status |-> 500, error |-> <<r.exc, <<>>>>]

PostCleaned(w, r) ==
    IF r.ok
    THEN /\ loc' = [loc EXCEPT ![w] = [cleaned |-> r.rec, warnings |-> r.warnings]]
         /\ pc' = [pc EXCEPT ![w] = "post_insert"]
         /\ UNCHANGED resp
    ELSE /\ Finish(w, PostFailure(r))
         /\ UNCHANGED loc

\* The request arrives with the JSON body raw;
\* cleaned, warnings = clean_record(data), which reads the table
PostClean(w, raw) ==
    /\ pc[w] = "idle"
    /\ Room(1)
    /\ req' = [req EXCEPT ![w] = [kind |-> "post", raw |-> raw]]
    /\ \E env \in Envs :
         PostCleaned(w, clean_record(raw, TRUE, NoHint, <<>>, db, env))
    /\ UNCHANGED <<db, seq, probe>>

\* The outcome of execute("INSERT INTO sales ...") for a cleaned record
PostWrite(table, last, cleaned) ==
    IF ~Binds(cleaned)
    THEN [db |-> table, seq |-> last, exc |-> "OverflowError"]
    ELSE IF HasNull(cleaned)
    THEN [db |-> table, seq |-> last, exc |-> "IntegrityError"]
    ELSE [db |-> InsertOne(table, last + 1, cleaned), seq |-> last + 1, exc |-> "none"]

\* execute(INSERT), generate_insights(cleaned), and the 201 response
PostInsert(w) ==
    /\ pc[w] = "post_insert"
    /\ LET out == PostWrite(db, seq, loc[w].cleaned)
       IN  /\ db' = out.db
           /\ seq' = out.seq
           /\ Finish(w, IF out.exc = "none"
                        THEN [status |-> 201, order |-> loc[w].cleaned,
                              warnings |-> loc[w].warnings]
                        ELSE [status |-> 500, error |-> <<out.exc, <<>>>>])
    /\ UNCHANGED <<req, loc, probe>>

\* ----- DELETE /api/orders/<id> --------------------------------------------

\* execute("DELETE FROM sales WHERE id=?")
DeleteRow(table, order_id) == SelectSeq(table, LAMBDA r : r.id # order_id)

api_orders_delete(w, order_id) ==
    /\ pc[w] = "idle"
    /\ db' = DeleteRow(db, order_id)
    /\ req' = [req EXCEPT ![w] = [kind |-> "delete", id |-> order_id]]
    /\ Finish(w, [status |-> 200])
    /\ UNCHANGED <<seq, loc, probe>>

\* ----- POST /api/import ---------------------------------------------------

\* The upload arrives: the header line, the data rows as DictReader yields
\* them, and the form's clear flag;
\* if clear_data: execute("DELETE FROM sales")
ImportClear(w, fieldnames, rows, clear) ==
    /\ pc[w] = "idle"
    /\ Room(Len(rows))
    /\ req' = [req EXCEPT ![w] = [kind |-> "import", fieldnames |-> fieldnames,
                                  rows |-> rows, clear |-> clear]]
    /\ db' = IF clear THEN <<>> ELSE db
    /\ pc' = [pc EXCEPT ![w] = "imp_rows"]
    /\ UNCHANGED <<seq, loc, resp, probe>>

\* curr_count, the counters and the header mapping
ImportLocals(table, fieldnames) ==
    [curr_count |-> CountRows(table), inserted |-> 0, skipped |-> 0,
     warn_log |-> <<>>, rows_to_insert |-> <<>>,
     mapping |-> get_header_mapping(fieldnames), i |-> 1]

WarnLogCap == 50

\* The essential-field check of the import loop; the third field it looks
\* at, Order_Date, is never empty
MissingEssential(cleaned) ==
    cleaned.Region = <<>> \/ cleaned.Product = <<>>

\* A loop body that left inserted as it was
RowOutcomeNoCount(l, r, good) ==
    [l EXCEPT
       !.rows_to_insert = IF good THEN Append(@, r.rec) ELSE @,
       !.skipped  = IF good THEN @ ELSE @ + 1,
       !.i        = @ + 1]

\* The locals after a pass of the loop body: good tells that the row was
\* cleaned and has its essential fields, otherwise the except branch ran
RowOutcome(l, r, good) ==
    [l EXCEPT
       !.rows_to_insert = IF good THEN Append(@, r.rec) ELSE @,
       !.inserted = IF good THEN @ + 1 ELSE @,
       !.skipped  = IF good THEN @ ELSE @ + 1,
       !.warn_log = IF (good => r.warnings # <<>>) /\ Len(@) < WarnLogCap
                    THEN Append(@, IF good THEN <<"Row", l.i, r.warnings>>
                                   ELSE <<"Row skipped", l.i,
                                          IF r.ok THEN "ValueError" ELSE r.exc>>)
                    ELSE @,
       !.i        = @ + 1]

RowCleaned(l, r) == RowOutcome(l, r, r.ok /\ ~MissingEssential(r.rec))

\* One pass of the loop body over row, with the handler's locals l
ImportRowStep(l, row, table, env) ==
    RowCleaned(l, clean_record(row, FALSE, Hint(l.curr_count + l.inserted + 1),
                               l.mapping, table, env))

\* for i, row in enumerate(reader, 1): the locals after the last row
RECURSIVE ImportLoop(_, _, _, _)
ImportLoop(l, rows, table, env) ==
    IF l.i > Len(rows) THEN l
    ELSE ImportLoop(ImportRowStep(l, rows[l.i], table, env), rows, table, env)

\* The count query and the loop over the rows, which reads the table no more
ImportRows(w) ==
    /\ pc[w] = "imp_rows"
    /\ \E env \in Envs :
         loc' = [loc EXCEPT ![w] =
                   ImportLoop(ImportLocals(db, req[w].fieldnames), req[w].rows, db, env)]
    /\ pc' = [pc EXCEPT ![w] = "imp_write"]
    /\ UNCHANGED <<db, seq, req, resp, probe>>

\* The outcome of the executemany transaction: a row that does not bind
\* raises, and leaving the with-block by an exception rolls everything back
ImportCommit(table, last, rows) ==
    IF \E i \in DOMAIN rows : ~Binds(rows[i])
    THEN [db |-> table, seq |-> last, exc |-> "OverflowError"]
    ELSE InsertOrIgnore(table, last, rows) @@ [exc |-> "none"]

\* if rows_to_insert: executemany(INSERT OR IGNORE); generate_insights();
\* the response with the counts
ImportWrite(w) ==
    /\ pc[w] = "imp_write"
    /\ LET out == ImportCommit(db, seq, loc[w].rows_to_insert)
       IN  /\ db' = out.db
           /\ seq' = out.seq
           /\ Finish(w, IF out.exc = "none"
                        THEN [status |-> 200, inserted |-> loc[w].inserted,
                              skipped |-> loc[w].skipped, warnings |-> loc[w].warn_log]
                        ELSE [status |-> 500, error |-> <<out.exc, <<>>>>])
    /\ UNCHANGED <<req, loc, probe>>

\* ----- GET /api/insights --------------------------------------------------

\* STRFTIME('%Y-%m', Order_Date) as the number YYYYMM, which orders the months
\* as the strings are ordered
MonthOf(row) == row.Order_Date.y * 100 + row.Order_Date.m

\* SUM(Sales_Amount) over the rows at the positions S, in rowid order
RECURSIVE SumSales(_, _)
SumSales(table, S) ==
    IF S = {} THEN Fin(0)
    ELSE FSub(SumSales(table, S \ {MaxOf(S)}), FSub(Fin(0), table[MaxOf(S)].Sales_Amount))

\* One row of the monthly query: mo, ROUND(SUM(Sales_Amount), 2) rev
MonthRow(table, mo) ==
    [mo |-> mo,
     rev |-> Round2(SumSales(table, {i \in DOMAIN table : MonthOf(table[i]) = mo}))]

\* GROUP BY mo ORDER BY mo DESC LIMIT 2: the rows of the two latest of the
\* months M, latest first, or of the only month, or none
Latest2(table, M) ==
    IF M = {} THEN <<>>
    ELSE IF M = {MaxOf(M)} THEN <<MonthRow(table, MaxOf(M))>>
    ELSE <<MonthRow(table, MaxOf(M)), MonthRow(table, MaxOf(M \ {MaxOf(M)}))>>

monthly(table) == Latest2(table, {MonthOf(table[i]) : i \in DOMAIN table})

\* pct = round((curr - prev) / prev * 100, 1) if prev else 0; an infinite
\* prev makes the quotient NaN, a prev beyond the tracked range makes a finite
\* curr count for nothing, and a curr that is not finite gives its sign times
\* the sign of prev
Pct(curr, prev) ==
    IF prev = Fin(0) THEN Fin(0)
    ELSE IF IsFin(curr) /\ IsFin(prev)
    THEN Fin(RoundDiv((curr.v - prev.v) * Sign(prev) * 100 * 10,
                      prev.v * Sign(prev)) * (Scale \div 10))
    ELSE IF curr.k = "nan" \/ prev.k \in {"nan", "inf"} THEN NaN
    ELSE IF IsFin(curr) THEN Fin(-100 * Scale)
    ELSE FMul(FSub(curr, prev), prev)

\* pct >= 0, which is false for NaN and true for -0.0
NonNegative(pct) == pct.k # "nan" /\ ~FLt(pct, Fin(0))

\* Rule 6: if len(monthly) == 2, the insight on the most recent month: the
\* month, its revenue, 'up' or 'down', abs(pct)
MonthlyGrowth(mon) ==
    IF Len(mon) = 2
    THEN << [rule |-> 6, mo |-> mon[1].mo, curr |-> mon[1].rev,
             up |-> NonNegative(Pct(mon[1].rev, mon[2].rev)),
             pct |-> Pct(mon[1].rev, mon[2].rev)] >>
    ELSE <<>>

\* WITH co AS (SELECT Customer_ID, COUNT(DISTINCT Order_ID) c FROM sales
\* WHERE Region='South' GROUP BY Customer_ID): c of a customer
SouthOrders(table, customer) ==
    Cardinality({table[i].Order_ID :
                   i \in {j \in DOMAIN table : /\ table[j].Region = South
                                                /\ table[j].Customer_ID = customer}})

\* ROUND(SUM(CASE WHEN c>=2 THEN 1 ELSE 0 END)*100.0/COUNT(*),1) over the
\* customers custs of co, rounded half away from zero; NULL without customers
RepeatRate(table, custs) ==
    IF custs = {} THEN NoneV
    ELSE Fin(((2 * 100 * 10 * Cardinality({c \in custs : SouthOrders(table, c) >= 2})
               + Cardinality(custs)) \div (2 * Cardinality(custs))) * (Scale \div 10))

south_repeat(table) ==
    RepeatRate(table, {table[i].Customer_ID :
                         i \in {j \in DOMAIN table : table[j].Region = South}})

\* Rule 3: the insight on the repeat rate of South, appended if the rate is
\* not None and rate < 60
SouthWarning(rate) ==
    IF rate # NoneV /\ FLt(rate, FromInt(60)) THEN << [rule |-> 3, rate |-> rate] >>
    ELSE <<>>

\* generate_insights(): the insights of rule 3 and of rule 6, in the order
\* of the list; the insights of the other rules are not kept
generate_insights(table) ==
    SouthWarning(south_repeat(table)) \o MonthlyGrowth(monthly(table))

\* return jsonify(generate_insights())
api_insights(w) ==
    /\ pc[w] = "idle"
    /\ req' = [req EXCEPT ![w] = [kind |-> "insights"]]
    /\ Finish(w, [status |-> 200, insights |-> generate_insights(db)])
    /\ UNCHANGED <<db, seq, loc, probe>>

\* ----- The response leaves; the worker is free again -----------------------

Reply(w) ==
    /\ pc[w] = "done"
    /\ pc' = [pc EXCEPT ![w] = "idle"]
    /\ req' = [req EXCEPT ![w] = NoReq]
    /\ loc' = [loc EXCEPT ![w] = <<>>]
    /\ resp' = [resp EXCEPT ![w] = NoResp]
    /\ UNCHANGED <<db, seq, probe>>

\* ------------------------------------------------------------------------
\* The requests the environment sends
\* ------------------------------------------------------------------------

Cell(h, s) == [h |-> h, v |-> Str(s)]

\* Labels a client may use
L_OrderId == <<"O","r","d","e","r"," ","I","D">>

L_Region == <<"L","o","c","a","t","i","o","n">>

L_Qty == <<"Q","t","y">>

L_Price == <<"P","r","i","c","e">>

L_Cost == <<"C","o","s","t">>

L_Discount == <<"D","i","s","c">>

L_Date == <<"O","r","d","e","r"," ","D","a","t","e">>

\* An explicit Order_ID that has the shape of a generated one
IdX == <<"O","R","D","-","0","0","0","0","0","2">>

TwentyNines == <<"9","9","9","9","9","9","9","9","9","9","9","9","9","9","9","9","9","9","9","9">>

\* The JSON bodies of POST /api/orders: no field at all; an explicit id; an
\* explicit id with an infinite quantity; a NaN discount; a quantity beyond
\* 64 bits
PostRaws ==
    { <<>>,
      <<Cell(L_OrderId, IdX)>>,
      <<Cell(L_OrderId, IdX), Cell(L_Qty, <<"i","n","f">>)>>,
      <<Cell(L_Discount, <<"n","a","n">>)>>,
      <<Cell(L_Qty, TwentyNines)>> }

\* The header line of the uploaded files
ImportHeaders == <<L_OrderId, L_Region, L_Qty, L_Discount>>

\* DictReader's row for a line of four cells
CsvRow(o, r, q, d) ==
    <<Cell(L_OrderId, o), Cell(L_Region, r), Cell(L_Qty, q), Cell(L_Discount, d)>>

\* The data rows of the uploaded files: without id; with an explicit id; a
\* blank region; an infinite quantity; a NaN discount; a quantity beyond 64
\* bits
CsvRows ==
    { CsvRow(<<>>, North, <<"1">>, <<"0">>),
      CsvRow(IdX, North, <<"1">>, <<"0">>),
      CsvRow(<<>>, <<" ">>, <<"1">>, <<"0">>),
      CsvRow(<<>>, North, <<"i","n","f">>, <<"0">>),
      CsvRow(<<>>, North, <<"1">>, <<"n","a","n">>),
      CsvRow(<<>>, North, TwentyNines, <<"0">>) }

SeqsUpTo(S, n) == UNION {[1..k -> S] : k \in 1..n}

Batches == SeqsUpTo(CsvRows, MaxBatch)

\* ------------------------------------------------------------------------
\* clean_record called on its own
\* ------------------------------------------------------------------------

\* The cell of a field, or no cell when the client leaves the field out
Opt(label, values) == {<<>>} \cup { <<Cell(label, v)>> : v \in values }

\* The raw records handed to clean_record: a quantity, a price, a cost, a
\* discount, a region and a date, each of them present or not; and a customer
\* name, a product and a category, each of them absent, empty, blank or a
\* word; and fields labelled as a sales amount, a profit and a total next to
\* a quantity, a price and a discount
ProbeRaws ==
    { q \o p \o c \o d \o r \o t :
        q \in Opt(L_Qty, { <<"0">>, <<"-","2">>, <<"0",".","5">>, <<"3">>, <<"a","b","c">> }),
        p \in Opt(L_Price, { <<"0">>, <<"-","5","0">>, <<"1","9",".","9","9">>, <<"5","0">> }),
        c \in Opt(L_Cost, { <<" ">>, <<"-","5">>, <<"2","0">> }),
        d \in Opt(L_Discount, { <<"1","5">>, <<"0",".","1","5">>, <<"1","5","0">>,
                                <<"-","5">>, <<"n","a","n">>, <<"a","b","c">> }),
        r \in Opt(L_Region, { <<"n","o","r","t","h">>, <<"M","a","r","s">>,
                              <<"s","o","u","t","h","-","w","e","s","t">> }),
        t \in Opt(L_Date, { <<"2","0","2","4","-","0","2","-","3","0">>,
                            <<"1","5","/","0","3","/","2","0","2","4">> }) }
    \cup
    { n \o p \o c :
        n \in Opt(<<"C","u","s","t","o","m","e","r">>, { <<>>, <<" ">>, <<"a","n","n">> }),
        p \in Opt(<<"P","r","o","d","u","c","t">>, { <<>>, <<" ", " ">>, <<"p","e","n">> }),
        c \in Opt(<<"C","a","t","e","g","o","r","y">>,
                  { <<>>, <<" ">>, <<"t","o","y","s">>, <<"o","t","h","e","r">> }) }
    \cup
    { a \o f \o t \o q \o p \o d :
        a \in Opt(<<"S","a","l","e","s","_","A","m","o","u","n","t">>, { <<"7">> }),
        f \in Opt(<<"P","r","o","f","i","t">>, { <<"3">> }),
        t \in Opt(<<"T","o","t","a","l">>, { <<"9">> }),
        q \in Opt(L_Qty, { <<"3">> }),
        p \in Opt(L_Price, { <<"5","0">> }),
        d \in Opt(L_Discount, { <<"1","5">> }) }

\* cleaned, warnings = clean_record(raw), on the empty table
Probe(raw, env) ==
    /\ ~probe.called
    /\ probe' = [called |-> TRUE, raw |-> raw, env |-> env,
                 out |-> clean_record(raw, TRUE, NoHint, <<>>, db, env)]
    /\ UNCHANGED <<db, seq, pc, req, loc, resp>>

\* The JSON bodies posted before the insights are read: a customer, a
\* region, a date in one of two months and a price
InsightRaws ==
    { <<Cell(<<"C","u","s","t","o","m","e","r">>, n), Cell(L_Region, r),
        Cell(L_Date, t), Cell(L_Price, p)>> :
        n \in { <<"a","n","n">>, <<"b","o","b">> },
        r \in { South, North },
        t \in { <<"2","0","2","4","-","0","1","-","1","5">>,
                <<"2","0","2","4","-","0","2","-","1","5">> },
        p \in { <<"5","0">>, <<"4","9",".","9","9">> } }

\* ------------------------------------------------------------------------
\* get_header_mapping called on its own
\* ------------------------------------------------------------------------

\* The header lines handed to get_header_mapping: up to three labels, among
\* them labels with one normal form, labels of one field and an empty label
HeaderLists ==
    SeqsUpTo({ L_Qty, <<"Q","T","Y">>, <<"U","n","i","t","s">>,
               <<"Q","u","a","n","t","i","t","y">>, <<"T","y","p","e">>, <<>> }, 3)

\* mapping = get_header_mapping(csv_headers)
MappingProbe(csv_headers) ==
    /\ ~probe.called
    /\ probe' = [called |-> TRUE, headers |-> csv_headers,
                 mapping |-> get_header_mapping(csv_headers)]
    /\ UNCHANGED <<db, seq, pc, req, loc, resp>>

\* ------------------------------------------------------------------------
\* Specifications
\* ------------------------------------------------------------------------

Init ==
    /\ db = <<>>
    /\ seq = 0
    /\ pc = [w \in Workers |-> "idle"]
    /\ req = [w \in Workers |-> NoReq]
    /\ loc = [w \in Workers |-> <<>>]
    /\ resp = [w \in Workers |-> NoResp]
    /\ probe = NoProbe

Step(w) ==
    \/ \E raw \in PostRaws : PostClean(w, raw)
    \/ PostInsert(w)
    \/ \E order_id \in 1..MaxRows : api_orders_delete(w, order_id)
    \/ \E rows \in Batches, clear \in BOOLEAN : ImportClear(w, ImportHeaders, rows, clear)
    \/ ImportRows(w)
    \/ ImportWrite(w)
    \/ Reply(w)

\* Requests served concurrently: any worker takes the next step of its
\* handler
Next == \E w \in Workers : Step(w)

Spec == Init /\ [][Next]_vars

\* Requests served one at a time: a worker moves only while every other
\* worker is idle
Alone(w) == \A v \in Workers \ {w} : pc[v] = "idle"

SeqNext == \E w \in Workers : Alone(w) /\ Step(w)

SeqSpec == Init /\ [][SeqNext]_vars

\* Single-record submissions and deletions only, one at a time
OrderStep(w) ==
    \/ \E raw \in PostRaws : PostClean(w, raw)
    \/ PostInsert(w)
    \/ \E order_id \in 1..MaxRows : api_orders_delete(w, order_id)
    \/ Reply(w)

OrdersSeqNext == \E w \in Workers : Alone(w) /\ OrderStep(w)

OrdersSeqSpec == Init /\ [][OrdersSeqNext]_vars

\* clean_record alone
CleanNext == \E raw \in ProbeRaws, env \in Envs : Probe(raw, env)

CleanSpec == Init /\ [][CleanNext]_vars

\* Orders posted one at a time, and the insights read
InsightStep(w) ==
    \/ \E raw \in InsightRaws : PostClean(w, raw)
    \/ PostInsert(w)
    \/ api_insights(w)
    \/ Reply(w)

InsightNext == \E w \in Workers : Alone(w) /\ InsightStep(w)

InsightSpec == Init /\ [][InsightNext]_vars

\* Files of up to MaxRows rows imported one at a time
BulkStep(w) ==
    \/ \E rows \in SeqsUpTo(CsvRows, MaxRows), clear \in BOOLEAN :
          ImportClear(w, ImportHeaders, rows, clear)
    \/ ImportRows(w)
    \/ ImportWrite(w)
    \/ Reply(w)

BulkNext == \E w \in Workers : Alone(w) /\ BulkStep(w)

BulkSpec == Init /\ [][BulkNext]_vars

\* get_header_mapping alone
MappingNext == \E csv_headers \in HeaderLists : MappingProbe(csv_headers)

MappingSpec == Init /\ [][MappingNext]_vars

\* ------------------------------------------------------------------------
\* Properties
\* ------------------------------------------------------------------------

\* The explicit Order_ID of a raw record, empty when it has none
ExplicitId(raw) == strip(OrStr(internal_data(raw, <<>>)["Order_ID"], <<>>))

\* The number of rows of the table with Order_ID x
CountId(table, x) == Cardinality({i \in DOMAIN table : table[i].Order_ID = x})

\* C1: when requests are served one at a time, starting from the empty
\* table, after any posts of single orders (with an explicit Order_ID or a
\* generated one) and deletions, no two rows of the table have the same
\* Order_ID.
C1_UniqueOrderIds ==
    \A i, j \in DOMAIN db : db[i].Order_ID = db[j].Order_ID => i = j

\* C2: a post whose explicit Order_ID X is already in the table is answered
\* with the duplicate error naming X (400, "Duplicate Order_ID X"), and the
\* table is the same before and after it.
C2_DuplicateRejected ==
    [][\A w \in Workers :
         (/\ pc[w] = "idle"
          /\ req'[w].kind = "post"
          /\ ExplicitId(req'[w].raw) # <<>>
          /\ ExistsOrderId(db, ExplicitId(req'[w].raw)))
         => /\ db' = db
            /\ pc'[w] = "done"
            /\ resp'[w] = [status |-> 400,
                           error |-> <<"Duplicate Order_ID", ExplicitId(req'[w].raw)>>]
      ]_vars

\* Row i of an import repeats an explicit Order_ID: that of an earlier row of
\* the same import, or of a row of the table
Repeats(rows, i, table) ==
    /\ ExplicitId(rows[i]) # <<>>
    /\ \/ ExistsOrderId(table, ExplicitId(rows[i]))
       \/ \E j \in 1..(i - 1) : ExplicitId(rows[j]) = ExplicitId(rows[i])

\* C3: in an import, a row whose explicit Order_ID repeats that of an earlier
\* row of the import or of a row of the table is skipped at write time: the
\* import ends without an error and the table then holds exactly one row
\* with that Order_ID.
C3_RepeatedIdStoredOnce ==
    [][\A w \in Workers :
         (pc[w] = "imp_write" /\ pc'[w] = "done")
         => \A i \in DOMAIN req[w].rows :
              Repeats(req[w].rows, i, db)
              => /\ resp'[w].status = 200
                 /\ CountId(db', ExplicitId(req[w].rows[i])) = 1
      ]_vars

\* C4: the inserted count an import returns is the number of rows the import
\* added to the table: the table's size after the write minus its size
\* before the rows were processed.
C4_InsertedIsAdded ==
    [][\A w \in Workers :
         (pc[w] = "imp_write" /\ pc'[w] = "done" /\ resp'[w].status = 200)
         => resp'[w].inserted = Len(db') - Len(db)
      ]_vars

\* clean_record returned a record with its essential fields
Queueable(r) == r.ok /\ ~MissingEssential(r.rec)

\* The rows of an import that clean and have their essential fields
CleanRows(rows) ==
    {i \in DOMAIN rows :
       Queueable(clean_record(rows[i], FALSE, Hint(1), <<>>, <<>>,
                              CHOOSE env \in Envs : TRUE))}

\* C5: an import of n rows always completes, with inserted + skipped = n, and
\* every row that cleans and has its essential fields was queued for
\* insertion, whatever the rows before it did.
C5_ImportCompletes ==
    \A w \in Workers :
      (pc[w] = "done" /\ req[w].kind = "import")
      => /\ resp[w].status = 200
         /\ resp[w].inserted + resp[w].skipped = Len(req[w].rows)
         /\ Len(loc[w].rows_to_insert) = Cardinality(CleanRows(req[w].rows))

\* C6: nothing keeps two posts without an explicit Order_ID from storing the
\* same generated Order_ID.  The Order_ID a post generates is made of the
\* number of rows the table has when clean_record runs, and the insert that
\* follows appends the cleaned record under that Order_ID whatever the table
\* holds by then.
C6_GeneratedIdStoredUnchecked ==
    [][\A w \in Workers :
         /\ (/\ pc[w] = "idle" /\ pc'[w] = "post_insert"
             /\ ExplicitId(req'[w].raw) = <<>>)
            => loc'[w].cleaned.Order_ID = GeneratedId(Len(db) + 1)
         /\ (pc[w] = "post_insert" /\ resp'[w].status = 201)
            => /\ Len(db') = Len(db) + 1
               /\ SubSeq(db', 1, Len(db)) = db
               /\ db'[Len(db')].Order_ID = loc[w].cleaned.Order_ID
      ]_vars

\* Two posts without an explicit Order_ID, in flight together, were both
\* answered 201 with the same generated Order_ID, and the table holds the two
\* rows; nothing was ever deleted
C6_TwoRowsOneGeneratedId ==
    /\ \A w \in Workers :
         /\ pc[w] = "done" /\ req[w].kind = "post" /\ resp[w].status = 201
         /\ ExplicitId(req[w].raw) = <<>>
         /\ resp[w].order.Order_ID = GeneratedId(1)
    /\ seq = 2 /\ Len(db) = 2
    /\ db[1].Order_ID = GeneratedId(1) /\ db[2].Order_ID = GeneratedId(1)

\* C7: the Quantity of every record clean_record returns is an integer
\* greater than 0, for absent, zero, negative and fractional raw quantities.
C7_QuantityPositive ==
    (probe.called /\ probe.out.ok) => probe.out.rec.Quantity > 0

\* The raw cost is absent or blank
CostAbsent(raw_cost) == raw_cost.t = "none" \/ strip(raw_cost.s) = <<>>

\* C8: when the raw cost is absent or blank, the Cost_Price of the returned
\* record is round(0.7 * Unit_Price, 2) of the Unit_Price of that returned
\* record, whatever the raw price is.
C8_CostFromReturnedPrice ==
    (/\ probe.called /\ probe.out.ok
     /\ CostAbsent(internal_data(probe.raw, <<>>)["Cost_Price"]))
    => probe.out.rec.Cost_Price =
         MulRound2(probe.out.rec.Unit_Price, Fin((7 * Scale) \div 10))

\* The raw discount is absent, blank or not a float literal
DiscountUnparsed(raw_disc) ==
    \/ raw_disc.t = "none"
    \/ strip(raw_disc.s) = <<>>
    \/ ~ParseFloat(strip(RemoveChars(raw_disc.s, {",", "$", "%"}))).ok

\* C9: the Discount of every returned record lies in [0, 0.9], and an absent
\* or unparseable raw discount gives 0.0.
C9_DiscountInRange ==
    (probe.called /\ probe.out.ok)
    => /\ IsFin(probe.out.rec.Discount)
       /\ probe.out.rec.Discount.v >= 0
       /\ probe.out.rec.Discount.v <= (9 * Scale) \div 10
       /\ DiscountUnparsed(internal_data(probe.raw, <<>>)["Discount"])
          => probe.out.rec.Discount = Fin(0)

\* The fields whose returned value was substituted for an invalid or
\* out-of-range raw value: c the coerced numbers, d the raw values
Corrections(d, c) ==
    (IF ~FGt(c.qty_f, Fin(0)) THEN {"Quantity"} ELSE {})
    \cup (IF ~FGt(c.u_price, Fin(0)) THEN {"Unit_Price"} ELSE {})
    \cup (IF ~CostAbsent(d["Cost_Price"]) /\ ~FGt(RawCost(d["Cost_Price"], c.u_price), Fin(0))
          THEN {"Cost_Price"} ELSE {})
    \cup (IF CleanDiscount(c.disc_f) # c.disc_f THEN {"Discount"} ELSE {})

CorrectionsOf(d) == Corrections(d, Coerce(d))

\* C10: every correction clean_record makes is reported: when a returned
\* value was substituted for an invalid or out-of-range raw value (quantity
\* reset to 1, unit price defaulted to 100.0, present non-positive cost
\* defaulted to 60.0, discount rescaled or clamped), the returned warnings
\* hold a warning for that field.
C10_EveryCorrectionWarned ==
    (probe.called /\ probe.out.ok)
    => CorrectionsOf(internal_data(probe.raw, <<>>))
         \subseteq {probe.out.warnings[i][1] : i \in DOMAIN probe.out.warnings}

\* C11: the Customer_Name, the Product and the Category of every record
\* clean_record returns are non-empty strings, also when the raw value is
\* absent, empty or made of whitespace only.
C11_TextFieldsNonEmpty ==
    (probe.called /\ probe.out.ok)
    => /\ probe.out.rec.Customer_Name # <<>>
       /\ probe.out.rec.Product # <<>>
       /\ probe.out.rec.Category # <<>>

\* The cell of raw with label h, if raw has one
HasCell(raw, h, v) == \E i \in DOMAIN raw : raw[i] = Cell(h, v)

\* Two calls of clean_record returned the same Sales_Amount and Profit
SameDerived(a, b) ==
    a.ok /\ a.rec.Sales_Amount = b.rec.Sales_Amount /\ a.rec.Profit = b.rec.Profit

\* C12: every record clean_record returns has
\* Sales_Amount = round(Quantity * Unit_Price * (1 - Discount), 2) and
\* Profit = round(Sales_Amount - Quantity * Cost_Price, 2) of its own
\* Quantity, Unit_Price, Discount and Cost_Price, whatever the raw record
\* holds under labels such as Sales_Amount, Profit or Total; and cleaning the
\* same raw record again, in any environment, returns the same two values.
\* The two sides are compared as the values the expressions compute: for a
\* NaN Discount both are NaN.
C12_DerivedFromReturnedFields ==
    (probe.called /\ probe.out.ok)
    => /\ probe.out.rec.Sales_Amount =
            MulRound2(FMul(FromInt(probe.out.rec.Quantity), probe.out.rec.Unit_Price),
                      FSub(FromInt(1), probe.out.rec.Discount))
       /\ probe.out.rec.Profit =
            Round2(FSub(probe.out.rec.Sales_Amount,
                        FMul(FromInt(probe.out.rec.Quantity), probe.out.rec.Cost_Price)))
       /\ \A env \in Envs :
            SameDerived(clean_record(probe.raw, TRUE, NoHint, <<>>, db, env), probe.out)

\* A raw record with the cells Sales_Amount 7 and Profit 3, quantity 3, price
\* 50 and discount 15 was cleaned: the record has Sales_Amount 127.5 and
\* Profit 22.5
C12_RawAmountNotCopied ==
    /\ probe.called /\ probe.out.ok
    /\ HasCell(probe.raw, <<"S","a","l","e","s","_","A","m","o","u","n","t">>, <<"7">>)
    /\ HasCell(probe.raw, <<"P","r","o","f","i","t">>, <<"3">>)
    /\ probe.out.rec.Quantity = 3
    /\ probe.out.rec.Unit_Price = Fin(50 * Scale)
    /\ probe.out.rec.Discount = Fin((15 * Scale) \div 100)
    /\ probe.out.rec.Sales_Amount = Fin((1275 * Scale) \div 10)
    /\ probe.out.rec.Profit = Fin((225 * Scale) \div 10)

\* The header line s with its labels in the order f
Permuted(s, f) == [i \in DOMAIN s |-> s[f[i]]]

\* The entries of [target] + alt_list of row i of the alias table whose
\* normal form is that of a non-empty label of headers
Matching(headers, i) ==
    {j \in DOMAIN aliases[i].alts :
       \E k \in DOMAIN headers :
          headers[k] # <<>> /\ norm(headers[k]) = norm(aliases[i].alts[j])}

\* C13: the mapping get_header_mapping returns does not depend on the order
\* of the labels: it returns the same mapping for every permutation of the
\* header line, also when two labels have the same normal form; and the
\* label chosen for a field is one that matches the earliest matching entry
\* of [canonical name] + alias list.
C13_MappingOrderIndependent ==
    probe.called
    => /\ \A f \in Permutations(DOMAIN probe.headers) :
            get_header_mapping(Permuted(probe.headers, f)) = probe.mapping
       /\ \A i \in DOMAIN aliases :
            IF Matching(probe.headers, i) = {}
            THEN aliases[i].target \notin DOMAIN probe.mapping
            ELSE /\ aliases[i].target \in DOMAIN probe.mapping
                 /\ norm(probe.mapping[aliases[i].target])
                      = norm(aliases[i].alts[MinOf(Matching(probe.headers, i))])

\* Worker w has answered a GET /api/insights; the table is as it was read
InsightsRead(w) == pc[w] = "done" /\ req[w].kind = "insights"

\* The months of the rows of the table
Months(table) == {MonthOf(table[i]) : i \in DOMAIN table}

\* The revenue of month mo
Revenue(table, mo) == SumSales(table, {i \in DOMAIN table : MonthOf(table[i]) = mo})

\* The insights is has the month-over-month insight, and it says 'up' exactly
\* when the revenue curr of the latest month is >= the revenue prev of the
\* month before it
DirectionRight(is, curr, prev) ==
    \E k \in DOMAIN is :
        is[k].rule = 6 /\ (is[k].up <=> (curr = prev \/ FGt(curr, prev)))

\* C14: when the rows of the table span at least 2 distinct months,
\* generate_insights emits the month-over-month insight (rule 6), and the
\* insight says 'up' exactly when the revenue of the latest month is >= the
\* revenue of the month before it, and 'down' exactly when it is smaller.
C14_MonthlyDirection ==
    \A w \in Workers :
      (InsightsRead(w) /\ Cardinality(Months(db)) >= 2)
      => DirectionRight(resp[w].insights,
                        Revenue(db, MaxOf(Months(db))),
                        Revenue(db, MaxOf(Months(db) \ {MaxOf(Months(db))})))

\* C15: whenever the table has a row of region South, generate_insights emits
\* the repeat-rate insight (rule 3), which states the rate, whatever the rate
\* is (the warning it carries being for a rate below 60 only).
C15_RepeatRateEmitted ==
    \A w \in Workers :
      (InsightsRead(w) /\ \E i \in DOMAIN db : db[i].Region = South)
      => \E k \in DOMAIN resp[w].insights :
            /\ resp[w].insights[k].rule = 3
            /\ resp[w].insights[k].rate = south_repeat(db)

\* The sequence hint the loop passes to clean_record next, with the locals l
NextHint(l) == l.curr_count + l.inserted + 1

\* The sequence hint passed to clean_record for row i of an import
HintOf(fieldnames, rows, i, table, env) ==
    NextHint(ImportLoop(ImportLocals(table, fieldnames), SubSeq(rows, 1, i - 1),
                        table, env))

\* The rows of an import that clean and have their essential fields, in
\* the order of the file
QueuedRows(rows) ==
    SelectSeq(rows, LAMBDA r :
        Queueable(clean_record(r, FALSE, Hint(1), <<>>, <<>>, CHOOSE env \in Envs : TRUE)))

\* No two records of queue that come from rows without an explicit Order_ID
\* have the same Order_ID; from[k] is the row queue[k] comes from
GeneratedIdsDiffer(queue, from) ==
    /\ Len(queue) = Len(from)
    /\ \A k, m \in DOMAIN queue :
         (k < m /\ ExplicitId(from[k]) = <<>> /\ ExplicitId(from[m]) = <<>>)
         => queue[k].Order_ID # queue[m].Order_ID

\* C16: within one import the sequence hint passed to clean_record never
\* decreases from a row to the next, and any two rows that are both queued
\* for insertion with a generated Order_ID get different Order_IDs, whatever
\* the mix of rows with an explicit id, rows without one and skipped rows.
C16_HintsGrowIdsDiffer ==
    \A w \in Workers :
      pc[w] = "imp_write"
      => /\ \A env \in Envs : \A i \in 1..(Len(req[w].rows) - 1) :
              HintOf(req[w].fieldnames, req[w].rows, i, db, env)
                <= HintOf(req[w].fieldnames, req[w].rows, i + 1, db, env)
         /\ GeneratedIdsDiffer(loc[w].rows_to_insert, QueuedRows(req[w].rows))

\* An import of three rows into the empty table has run its loop: a row
\* without id, a row that is skipped, a row without id; the two rows queued
\* have the generated Order_IDs of the numbers 1 and 2
C16_TwoGeneratedAroundSkipped ==
    \E w \in Workers :
      /\ pc[w] = "imp_write" /\ Len(db) = 0 /\ Len(req[w].rows) = 3
      /\ \A i \in 1..3 : ExplicitId(req[w].rows[i]) = <<>>
      /\ loc[w].skipped = 1 /\ loc[w].inserted = 2
      /\ loc[w].warn_log # <<>> /\ loc[w].warn_log[1][2] = 2
      /\ loc[w].rows_to_insert[1].Order_ID = GeneratedId(1)
      /\ loc[w].rows_to_insert[2].Order_ID = GeneratedId(2)

=============================================================================
